---- MODULE Spec2Model ----
(***************************************************************************)
(* Model of vta/python/vta/top/vta_conv2d.py: the packed conv2d compute    *)
(* declaration (conv2d_packed), its schedule (schedule_conv2d_packed) and  *)
(* the fused elementwise/add schedule (_schedule_add).                     *)
(*                                                                         *)
(* A compute graph is a sequence of operation nodes; node 1 is the output  *)
(* operation and the inputs of node n have larger indices.  Tensor 0 is a  *)
(* placeholder tensor.  A schedule is the leaf-axis order of its stages    *)
(* plus the log of the scheduling primitives called on it.                 *)
(***************************************************************************)
EXTENDS Integers, Sequences, FiniteSets, TLC

VARIABLES pc, g, padded, int_dtype, cls, cfg, declared, s, conv_in, oshape, ext, factor

vars == <<pc, g, padded, int_dtype, cls, cfg, declared, s, conv_in, oshape, ext, factor>>

(***************************************************************************)
(* Bounds of the model.                                                    *)
(***************************************************************************)
MaxOps == 4
MaxAddOps == 3
MaxIn == 4
MaxKernel == 3
MaxStride == 2
MaxPad == 1
MaxExtent == 60
MaxTile == 2

(***************************************************************************)
(* conv2d_packed: the output shape of the packed convolution.              *)
(***************************************************************************)

\* topi.nn.pad(data, pad_before) with pad_after defaulting to pad_before:
\* the spatial extents grow by twice the padding.
Pad(shape, pad_h, pad_w) ==
  [h |-> shape.h + 2 * pad_h, w |-> shape.w + 2 * pad_w]

\* lines 39-42: the pad node is created only when padding[0] is non-zero.
PadData(c) ==
  IF c.pad_h # 0 THEN Pad([h |-> c.in_h, w |-> c.in_w], c.pad_h, c.pad_w)
  ELSE [h |-> c.in_h, w |-> c.in_w]

\* Python's floor division.
FloorDiv(a, b) == a \div b

\* lines 45-47: oheight, owidth.
OutShape(c) ==
  [h |-> FloorDiv(PadData(c).h - c.k_h, c.stride_h) + 1,
   w |-> FloorDiv(PadData(c).w - c.k_w, c.stride_w) + 1]

ConvInputs ==
  [in_h : 1..MaxIn, in_w : 1..MaxIn, k_h : 1..MaxKernel, k_w : 1..MaxKernel,
   stride_h : 1..MaxStride, stride_w : 1..MaxStride,
   pad_h : 0..MaxPad, pad_w : 0..MaxPad]

NoConvInput ==
  [in_h |-> 1, in_w |-> 1, k_h |-> 1, k_w |-> 1, stride_h |-> 1,
   stride_w |-> 1, pad_h |-> 0, pad_w |-> 0]

NoShape == [h |-> 0, w |-> 0]


(***************************************************************************)
(* Compute graphs.                                                         *)
(***************************************************************************)

\* The output operation outs[0].op (lines 74, 204).
OutputOp == 1

\* The placeholder tensor: isinstance(tensor.op, tvm.te.PlaceholderOp).
Placeholder == 0

IsPlaceholder(t) == t = Placeholder

\* topi.tag.is_broadcast: the tag is the elementwise or the broadcast tag.
is_broadcast(tag) == tag \in {"elemwise", "broadcast"}

\* lines 198-201: a cast operation is recognised by its name.
is_cast_op(op) == op.name = "T_cast"

Min(S) == CHOOSE x \in S : \A y \in S : x <= y

RECURSIVE SortedSeq(_)
SortedSeq(S) ==
  IF S = {} THEN <<>> ELSE <<Min(S)>> \o SortedSeq(S \ {Min(S)})

\* op.input_tensors, in the order the operation reads them.
input_tensors(gr, op) == SortedSeq(gr[op].ins)

\* An operation reads at most two tensors, each a placeholder or the result
\* of a later node.
InSets(n, N) ==
  {S \in SUBSET ({Placeholder} \cup ((n + 1)..N)) : Cardinality(S) <= 2}

\* The nodes a graph given to schedule_conv2d_packed may hold at position n:
\* elementwise operations with iteration axes (all six, for the output),
\* axis-less constant folds, the convolution (its data and kernel inputs
\* are held by the variable padded) and operations of any other tag.
ConvNodes(n, N) ==
  {[tag |-> "elemwise", axis |-> a, name |-> "T_op", ins |-> S] :
      a \in (IF n = OutputOp THEN {TRUE} ELSE BOOLEAN), S \in InSets(n, N)}
  \cup (IF n = OutputOp THEN {}
        ELSE {[tag |-> "conv2d_dense", axis |-> TRUE, name |-> "res", ins |-> {}]})
  \cup {[tag |-> "injective", axis |-> TRUE, name |-> "T_op", ins |-> {}]}

\* The nodes a graph given to _schedule_add may hold at position n.
AddNodes(n, N) ==
  {[tag |-> "elemwise", axis |-> a, name |-> nm, ins |-> S] :
      a \in (IF n = OutputOp THEN {TRUE} ELSE BOOLEAN),
      nm \in {"T_op", "T_cast"}, S \in InSets(n, N)}
  \cup {[tag |-> "injective", axis |-> TRUE, name |-> "T_op", ins |-> S] :
      S \in InSets(n, N)}

NodesAt(kind, n, N) == IF kind = "conv" THEN ConvNodes(n, N) ELSE AddNodes(n, N)

\* Depth-first preorder of the operations reachable from op.
RECURSIVE Preorder(_, _, _)
Preorder(gr, todo, seen) ==
  IF todo = <<>> THEN seen
  ELSE LET op == Head(todo) IN
       IF \E i \in 1..Len(seen) : seen[i] = op
       THEN Preorder(gr, Tail(todo), seen)
       ELSE Preorder(gr,
                     SelectSeq(input_tensors(gr, op), LAMBDA t : ~IsPlaceholder(t))
                       \o Tail(todo),
                     Append(seen, op))

Reachable(gr) == {Preorder(gr, <<OutputOp>>, <<>>)[i] :
                     i \in 1..Len(Preorder(gr, <<OutputOp>>, <<>>))}

\* Nodes are numbered in depth-first preorder from the output.
Canonical(gr) == Preorder(gr, <<OutputOp>>, <<>>) = [i \in 1..Len(gr) |-> i]

(***************************************************************************)
(* schedule_conv2d_packed: the classifier (lines 75-98).                   *)
(***************************************************************************)

\* lines 75-78: the four lists; ok is FALSE once the assertion of line 94
\* has failed; walk lists the operations _traverse was called on, in order.
EmptyLists ==
  [const_ops |-> <<>>, ewise_inputs |-> <<>>, ewise_ops |-> <<>>,
   conv2d_res |-> <<>>, ok |-> TRUE, walk |-> <<>>]

Entered(st, op) == [st EXCEPT !.walk = Append(@, op)]

\* lines 84-87: the operation is filed as a constant fold or as elementwise.
FileBroadcast(gr, op, st) ==
  IF op = OutputOp THEN st
  ELSE IF ~gr[op].axis THEN [st EXCEPT !.const_ops = Append(@, op)]
  ELSE [st EXCEPT !.ewise_ops = Append(@, op)]

\* lines 81-96: _traverse(op); the loop of lines 88-92 runs over the input
\* tensors from position i on.  A failed assertion ends the walk.
RECURSIVE TraverseConv(_, _, _), TraverseConvInputs(_, _, _, _)
TraverseConv(gr, op, st) ==
  IF ~st.ok THEN st
  ELSE IF is_broadcast(gr[op].tag)
       THEN TraverseConvInputs(gr, op, 1, FileBroadcast(gr, op, Entered(st, op)))
  ELSE IF gr[op].tag = "conv2d_dense"
       THEN [Entered(st, op) EXCEPT !.conv2d_res = Append(@, op)]
  ELSE [Entered(st, op) EXCEPT !.ok = FALSE]

TraverseConvInputs(gr, op, i, st) ==
  IF ~st.ok \/ i > Len(input_tensors(gr, op)) THEN st
  ELSE LET tensor == input_tensors(gr, op)[i] IN
       TraverseConvInputs(gr, op, i + 1,
         IF IsPlaceholder(tensor)
         THEN [st EXCEPT !.ewise_inputs = Append(@, <<op, tensor>>)]
         ELSE TraverseConv(gr, tensor, st))

\* lines 79 and 97: line 79 reads output.op.input_tensors[0], which the
\* output must have; then the walk from the output.
Classify(gr) ==
  IF gr[OutputOp].ins = {} THEN [EmptyLists EXCEPT !.ok = FALSE]
  ELSE TraverseConv(gr, OutputOp, EmptyLists)

\* line 98: assert len(conv2d_res) == 1
OneConv(st) == Len(st.conv2d_res) = 1

(***************************************************************************)
(* The schedule object: stages, their leaf axes and the primitives called. *)
(***************************************************************************)

OpStage(n) == [k |-> "op", i |-> n]
CacheStage(n) == [k |-> "cache", i |-> n]
PlaceholderT == [k |-> "placeholder", i |-> 0]
DataT == [k |-> "data", i |-> 0]
KernelT == [k |-> "kernel", i |-> 0]
PadT == [k |-> "pad_data", i |-> 0]
NoStage == [k |-> "none", i |-> 0]

TensorStage(t) == IF IsPlaceholder(t) THEN PlaceholderT ELSE OpStage(t)

\* get_env(): the three on-chip scopes and the three instruction pragmas.
inp_scope == "InputLocal"
wgt_scope == "WeightLocal"
acc_scope == "AccumulatorLocal"
alu == "alu"
dma_copy == "dma_copy"
gemm == "gemm"

\* Axes are paths: a split axis x yields Outer(x) and Inner(x).
Outer(x) == Append(x, "outer")
Inner(x) == Append(x, "inner")
NoAxis == <<>>
Axis0 == <<"axis0">>

\* The six data-parallel axes of a packed tensor (lines 103, 148, 176, 238)
\* and the four reduction axes of the convolution (lines 51-54, 104, 177).
PackedAxes == <<(<<"x_bo">>), (<<"x_co">>), (<<"x_i">>), (<<"x_j">>), (<<"x_bi">>), (<<"x_ci">>)>>
ReduceAxes == <<(<<"k_o">>), (<<"d_i">>), (<<"d_j">>), (<<"k_i">>)>>

Ev(call, stage, axis, arg, peer, order, src) ==
  [call |-> call, stage |-> stage, axis |-> axis, arg |-> arg, peer |-> peer,
   order |-> order, src |-> src]

Logged(st, e) == [st EXCEPT !.log = Append(@, e)]

\* Stage.set_scope
SetScope(st, stage, scope) ==
  Logged(st, Ev("set_scope", stage, NoAxis, scope, NoStage, <<>>, NoStage))

\* Schedule.cache_read returns a new stage reading tensor for the reader.
NextCache(st) ==
  CacheStage(Len(SelectSeq(st.log, LAMBDA e : e.call = "cache_read")) + 1)

CacheRead(st, tensor, scope, reader) ==
  Logged(st, Ev("cache_read", NextCache(st), NoAxis, scope, reader, <<>>, tensor))

\* Stage.pragma
Pragma(st, stage, axis, name) ==
  Logged(st, Ev("pragma", stage, axis, name, NoStage, <<>>, NoStage))

\* Stage.compute_inline
ComputeInline(st, stage) ==
  Logged(st, Ev("compute_inline", stage, NoAxis, "", NoStage, <<>>, NoStage))

\* Stage.compute_at
ComputeAt(st, stage, parent, axis) ==
  Logged(st, Ev("compute_at", stage, axis, "", parent, <<>>, NoStage))

\* Stage.bind
Bind(st, stage, axis, thread) ==
  Logged(st, Ev("bind", stage, axis, thread, NoStage, <<>>, NoStage))

\* Stage.tensorize
Tensorize(st, stage, axis, intrin) ==
  Logged(st, Ev("tensorize", stage, axis, intrin, NoStage, <<>>, NoStage))

IndexOf(seq, x) == Min({i \in 1..Len(seq) : seq[i] = x})

\* Stage.split: the parent leaf is replaced, in place, by its outer and
\* inner parts; by names the configuration entry that gives the factor.
Split(st, stage, axis, by) ==
  LET lv == st.leaf[stage]
      p == IndexOf(lv, axis)
  IN Logged([st EXCEPT !.leaf[stage] =
               SubSeq(lv, 1, p - 1) \o <<Outer(axis), Inner(axis)>>
                 \o SubSeq(lv, p + 1, Len(lv))],
            Ev("split", stage, axis, by, NoStage, <<>>, NoStage))

\* Stage.reorder: the named leaves are written, in the order given, into the
\* positions those leaves occupy; every other leaf stays where it is.
Reorder(st, stage, order) ==
  LET lv == st.leaf[stage]
      pos == SortedSeq({IndexOf(lv, order[i]) : i \in 1..Len(order)})
      at(j) == Min({i \in 1..Len(pos) : pos[i] = j})
  IN Logged([st EXCEPT !.leaf[stage] =
               [j \in 1..Len(lv) |->
                  IF \E i \in 1..Len(pos) : pos[i] = j THEN order[at(j)] ELSE lv[j]]],
            Ev("reorder", stage, NoAxis, "", NoStage, order, NoStage))


(***************************************************************************)
(* schedule_conv2d_packed: the planner (lines 99-190).                     *)
(***************************************************************************)

Output == OpStage(OutputOp)

\* line 99: conv2d_stage = conv2d_res[0].output(0)
conv2d_stage(c) == OpStage(c.conv2d_res[1])

\* line 100: te.create_schedule(output.op); the locals of the function that
\* later steps read are kept beside the schedule.
CreateSchedule(c) ==
  [leaf |-> (Output :> PackedAxes) @@ (conv2d_stage(c) :> (PackedAxes \o ReduceAxes)),
   log |-> <<>>, cdata |-> NoStage, ckernel |-> NoStage, cache_read_ewise |-> <<>>]

\* lines 105-111: the tunables declared to the configuration space.
SplitNames == {"tile_b", "tile_h", "tile_w", "tile_ci", "tile_co"}
KnobNames == {"oc_nthread", "h_nthread"}
KnobValues == {1, 2}
Unread == [oc_nthread |-> 0, h_nthread |-> 0]

\* lines 114-131: the pad stage or a cached copy holds the activation.
SetupPad(st, pd, c) ==
  LET a == IF pd THEN [SetScope(st, PadT, inp_scope) EXCEPT !.cdata = PadT]
           ELSE [CacheRead(st, DataT, inp_scope, conv2d_stage(c))
                   EXCEPT !.cdata = NextCache(st)]
      b == [CacheRead(a, KernelT, wgt_scope, conv2d_stage(c))
              EXCEPT !.ckernel = NextCache(a)]
  IN SetScope(b, conv2d_stage(c), acc_scope)

\* lines 134-137
RECURSIVE CacheReadEwise(_, _, _)
CacheReadEwise(st, pairs, i) ==
  IF i > Len(pairs) THEN st
  ELSE CacheReadEwise(
         [CacheRead(st, TensorStage(pairs[i][2]), acc_scope, OpStage(pairs[i][1]))
            EXCEPT !.cache_read_ewise = Append(@, NextCache(st))],
         pairs, i + 1)

\* lines 140-142
RECURSIVE SetEwiseScope(_, _, _)
SetEwiseScope(st, ops, i) ==
  IF i > Len(ops) THEN st
  ELSE SetEwiseScope(
         Pragma(SetScope(st, OpStage(ops[i]), acc_scope), OpStage(ops[i]), Axis0, alu),
         ops, i + 1)

\* lines 144-145
RECURSIVE InlineConst(_, _, _)
InlineConst(st, ops, i) ==
  IF i > Len(ops) THEN st
  ELSE InlineConst(ComputeInline(st, OpStage(ops[i])), ops, i + 1)

\* lines 114-145
AssignScopes(st, pd, c) ==
  InlineConst(
    SetEwiseScope(
      CacheReadEwise(SetupPad(st, pd, c), c.ewise_inputs, 1),
      c.ewise_ops, 1),
    c.const_ops, 1)

x_bo == <<"x_bo">>
x_co == <<"x_co">>
x_i == <<"x_i">>
x_j == <<"x_j">>
x_bi == <<"x_bi">>
x_ci == <<"x_ci">>
k_o == <<"k_o">>
d_i == <<"d_i">>
d_j == <<"d_j">>
k_i == <<"k_i">>
x_co0 == Outer(x_co)
x_co1 == Inner(x_co)
x_i0 == Outer(x_i)
x_i1 == Inner(x_i)
x_j0 == Outer(x_j)
x_j1 == Inner(x_j)
\* line 153
store_pt == x_j0

\* The tiling with the declared batch split applied as well.
TileOutputWithBatch(st) ==
  Split(
    Reorder(
      Split(Split(Split(st, Output, x_co, "tile_co"), Output, x_i, "tile_h"),
            Output, x_j, "tile_w"),
      Output, <<x_bo, x_i0, x_co0, x_j0, x_co1, x_i1, x_j1, x_bi, x_ci>>),
    Output, x_bi, "tile_b")

\* lines 148-152
TileOutput(st) ==
  Reorder(
    Split(Split(Split(st, Output, x_co, "tile_co"), Output, x_i, "tile_h"),
          Output, x_j, "tile_w"),
    Output, <<x_bo, x_i0, x_co0, x_j0, x_co1, x_i1, x_j1, x_bi, x_ci>>)

\* lines 157-158
RECURSIVE AttachEwise(_, _, _)
AttachEwise(st, ops, i) ==
  IF i > Len(ops) THEN st
  ELSE AttachEwise(ComputeAt(st, OpStage(ops[i]), Output, store_pt), ops, i + 1)

\* lines 160-162
RECURSIVE AttachCaches(_, _, _)
AttachCaches(st, caches, i) ==
  IF i > Len(caches) THEN st
  ELSE AttachCaches(
         Pragma(ComputeAt(st, caches[i], Output, store_pt), caches[i], Axis0, dma_copy),
         caches, i + 1)

\* lines 147-162
Tile(st, c) ==
  AttachCaches(
    AttachEwise(ComputeAt(TileOutput(st), conv2d_stage(c), Output, store_pt),
                c.ewise_ops, 1),
    st.cache_read_ewise, 1)

\* The threading with the two axes of the reorder exchanged.
VirtualThreadBehind(st, axis, knob) ==
  Bind(Reorder(Split(st, Output, axis, knob), Output, <<x_bo, Inner(axis)>>),
       Output, Inner(axis), "cthread")

\* lines 165-168 and 171-174: split the axis by the knob and bind the inner
\* part, v_t, as a virtual thread.
VirtualThread(st, axis, knob) ==
  Bind(Reorder(Split(st, Output, axis, knob), Output, <<Inner(axis), x_bo>>),
       Output, Inner(axis), "cthread")

\* lines 165-168
ThreadChannel(st, cf) ==
  IF cf.oc_nthread > 1 THEN VirtualThread(st, x_co0, "oc_nthread") ELSE st

\* The height threading guarded by the channel knob.
ThreadHeightByChannelKnob(st, cf) ==
  IF cf.oc_nthread > 1 THEN VirtualThread(st, x_i0, "h_nthread") ELSE st

\* lines 171-174
ThreadHeight(st, cf) ==
  IF cf.h_nthread > 1 THEN VirtualThread(st, x_i0, "h_nthread") ELSE st

\* lines 176-182
StageReduction(st, c) ==
  LET cs == conv2d_stage(c)
      a == Reorder(st, cs, <<x_bo, k_o, x_j, d_j, d_i, x_co, x_i, x_bi, x_ci, k_i>>)
      b == Split(a, cs, k_o, "tile_ci")
  IN ComputeAt(ComputeAt(b, st.cdata, cs, Outer(k_o)), st.ckernel, cs, Outer(k_o))

\* The final annotations followed by one more attachment.
MapInstructionsThenAttach(st, c) ==
  ComputeAt(
    Pragma(
      Tensorize(
        Pragma(Pragma(st, st.cdata, Axis0, dma_copy), st.ckernel, Axis0, dma_copy),
        conv2d_stage(c), x_bi, gemm),
      Output, x_co1, dma_copy),
    st.cdata, conv2d_stage(c), Outer(k_o))

\* lines 185-188
MapInstructions(st, c) ==
  Pragma(
    Tensorize(
      Pragma(Pragma(st, st.cdata, Axis0, dma_copy), st.ckernel, Axis0, dma_copy),
      conv2d_stage(c), x_bi, gemm),
    Output, x_co1, dma_copy)


(***************************************************************************)
(* _schedule_add (lines 195-291).                                          *)
(***************************************************************************)

\* The filing without the cast test.
FileAddWithCasts(gr, op, st) ==
  IF op = OutputOp THEN st
  ELSE IF ~gr[op].axis THEN [st EXCEPT !.const_ops = Append(@, op)]
  ELSE [st EXCEPT !.ewise_ops = Append(@, op)]

\* lines 218-221: as FileBroadcast, but a cast with axes is filed nowhere.
FileAdd(gr, op, st) ==
  IF op = OutputOp THEN st
  ELSE IF ~gr[op].axis THEN [st EXCEPT !.const_ops = Append(@, op)]
  ELSE IF ~is_cast_op(gr[op]) THEN [st EXCEPT !.ewise_ops = Append(@, op)]
  ELSE st

\* lines 224-229: what the walk does with one input of a broadcast operation.
AddLeaf(gr, op, tensor) ==
  \/ IsPlaceholder(tensor)
  \/ (is_cast_op(gr[tensor]) /\ op # OutputOp)

\* lines 232-233: the inputs of any other operation that are walked.
AddSkipped(gr, tensor) ==
  IsPlaceholder(tensor) \/ is_cast_op(gr[tensor])

\* lines 215-234
RECURSIVE TraverseAdd(_, _, _), TraverseAddInputs(_, _, _, _)
TraverseAdd(gr, op, st) ==
  IF is_broadcast(gr[op].tag)
  THEN TraverseAddInputs(gr, op, 1, FileAdd(gr, op, Entered(st, op)))
  ELSE TraverseAddInputs(gr, op, 1, Entered(st, op))

TraverseAddInputs(gr, op, i, st) ==
  IF i > Len(input_tensors(gr, op)) THEN st
  ELSE LET tensor == input_tensors(gr, op)[i] IN
       TraverseAddInputs(gr, op, i + 1,
         IF is_broadcast(gr[op].tag)
         THEN (IF AddLeaf(gr, op, tensor)
               THEN [st EXCEPT !.ewise_inputs = Append(@, <<op, tensor>>)]
               ELSE TraverseAdd(gr, tensor, st))
         ELSE (IF AddSkipped(gr, tensor) THEN st ELSE TraverseAdd(gr, tensor, st)))

\* te.schedule.AutoInlineInjective (line 206): every injective operation
\* other than the output is inlined.
RECURSIVE AutoInlineInjective(_, _, _)
AutoInlineInjective(st, gr, n) ==
  IF n > Len(gr) THEN st
  ELSE AutoInlineInjective(
         IF n # OutputOp /\ gr[n].tag \in {"elemwise", "broadcast", "injective"}
         THEN ComputeInline(st, OpStage(n)) ELSE st,
         gr, n + 1)

\* lines 205-206
CreateAddSchedule(gr) ==
  AutoInlineInjective(
    [leaf |-> (Output :> PackedAxes), log |-> <<>>, cdata |-> NoStage,
     ckernel |-> NoStage, cache_read_ewise |-> <<>>],
    gr, 1)

\* line 250: int(n ** 0.5)
Isqrt(n) == CHOOSE r \in 0..n : r * r <= n /\ (r + 1) * (r + 1) > n

\* lines 248-250: factors(n), the sorted divisors of n.
Factors(n) ==
  SortedSeq(UNION {{i, n \div i} : i \in {i \in 1..Isqrt(n) : n % i = 0}})

\* The search that also drops a factor equal to the ceiling.
RECURSIVE SelectFactorInclusive(_, _)
SelectFactorInclusive(fs, ceiling) ==
  IF fs = <<>> THEN 0
  ELSE IF fs[Len(fs)] >= ceiling
       THEN SelectFactorInclusive(SubSeq(fs, 1, Len(fs) - 1), ceiling)
  ELSE fs[Len(fs)]

\* lines 254-257 and 260-263: drop the last factor while it exceeds the
\* ceiling; 0 stands for the IndexError of reading the last of an empty list.
RECURSIVE SelectFactor(_, _)
SelectFactor(fs, ceiling) ==
  IF fs = <<>> THEN 0
  ELSE IF fs[Len(fs)] > ceiling THEN SelectFactor(SubSeq(fs, 1, Len(fs) - 1), ceiling)
  ELSE fs[Len(fs)]

HeightCeiling == 28
WidthCeiling == 14

\* lines 253-263
TileFactors(e) ==
  [i |-> SelectFactor(Factors(e.h), HeightCeiling),
   j |-> SelectFactor(Factors(e.w), WidthCeiling)]

\* lines 245, 265-267
TileAdd(st) ==
  Reorder(
    Split(Split(Split(st, Output, x_co, "factor_1"), Output, x_i, "i_factor"),
          Output, x_j, "j_factor"),
    Output, <<x_bo, x_i0, x_co0, x_j0, x_co1, x_i1, x_j1, x_bi, x_ci>>)

\* lines 271-274
RECURSIVE StageAddEwise(_, _, _)
StageAddEwise(st, ops, i) ==
  IF i > Len(ops) THEN st
  ELSE StageAddEwise(
         ComputeAt(
           Pragma(SetScope(st, OpStage(ops[i]), acc_scope), OpStage(ops[i]), Axis0, alu),
           OpStage(ops[i]), Output, store_pt),
         ops, i + 1)

\* lines 282-284
RECURSIVE StageAddCaches(_, _, _)
StageAddCaches(st, caches, i) ==
  IF i > Len(caches) THEN st
  ELSE StageAddCaches(
         ComputeAt(Pragma(st, caches[i], Axis0, dma_copy), caches[i], Output, store_pt),
         caches, i + 1)

\* lines 238-289
StageAdd(st, c) ==
  LET a == StageAddEwise(TileAdd(st), c.ewise_ops, 1)
      b == CacheReadEwise(a, c.ewise_inputs, 1)
      d == StageAddCaches(b, b.cache_read_ewise, 1)
  IN Pragma(InlineConst(d, c.const_ops, 1), Output, x_co1, dma_copy)


(***************************************************************************)
(* The state machines.                                                     *)
(***************************************************************************)

NoSchedule ==
  [leaf |-> <<>>, log |-> <<>>, cdata |-> NoStage, ckernel |-> NoStage,
   cache_read_ewise |-> <<>>]

NoGraph == <<>>

\* g is one of the graphs of N nodes that extend the nodes pre: a node is
\* added only when an earlier node reads it, so that every node is reachable
\* from the output.
RECURSIVE GraphIs(_, _, _)
GraphIs(kind, N, pre) ==
  LET k == Len(pre) + 1 IN
  IF k > N THEN Canonical(pre) /\ g = pre
  ELSE IF k > 1 /\ {j \in 1..(k - 1) : k \in pre[j].ins} = {} THEN FALSE
  ELSE \E r \in NodesAt(kind, k, N) : GraphIs(kind, N, Append(pre, r))

\* ---- conv2d_packed ----
InitConv ==
  /\ pc = "conv_start"
  /\ conv_in \in ConvInputs
  /\ g = NoGraph /\ padded = FALSE /\ int_dtype = TRUE /\ cls = EmptyLists
  /\ cfg = Unread /\ declared = {} /\ s = NoSchedule /\ oshape = NoShape
  /\ ext = NoShape /\ factor = [i |-> 0, j |-> 0]

\* lines 33-67
Conv2dPacked ==
  /\ pc = "conv_start"
  /\ oshape' = OutShape(conv_in)
  /\ pc' = "conv_done"
  /\ UNCHANGED <<g, padded, int_dtype, cls, cfg, declared, s, conv_in, ext, factor>>

SpecConv == InitConv /\ [][Conv2dPacked]_vars

\* ---- schedule_conv2d_packed ----
InitSched ==
  /\ pc = "start"
  /\ \E N \in 1..MaxOps : GraphIs("conv", N, <<>>)
  /\ padded \in BOOLEAN
  /\ int_dtype = TRUE /\ cls = EmptyLists
  /\ cfg = Unread /\ declared = {} /\ s = NoSchedule
  /\ conv_in = NoConvInput /\ oshape = NoShape
  /\ ext = NoShape /\ factor = [i |-> 0, j |-> 0]

\* lines 73-98
Classifying ==
  /\ pc = "start"
  /\ cls' = Classify(g)
  /\ pc' = IF cls'.ok /\ OneConv(cls') THEN "classified" ELSE "failed"
  /\ UNCHANGED <<g, padded, int_dtype, cfg, declared, s, conv_in, oshape, ext, factor>>

\* lines 99-112
DefiningSpace ==
  /\ pc = "classified"
  /\ s' = CreateSchedule(cls)
  /\ declared' = SplitNames \cup KnobNames
  /\ pc' = "declared"
  /\ UNCHANGED <<g, padded, int_dtype, cls, cfg, conv_in, oshape, ext, factor>>

\* lines 114-145
AssigningScopes ==
  /\ pc = "declared"
  /\ s' = AssignScopes(s, padded, cls)
  /\ pc' = "scoped"
  /\ UNCHANGED <<g, padded, int_dtype, cls, cfg, declared, conv_in, oshape, ext, factor>>

\* lines 147-162
Tiling ==
  /\ pc = "scoped"
  /\ s' = Tile(s, cls)
  /\ pc' = "tiled"
  /\ UNCHANGED <<g, padded, int_dtype, cls, cfg, declared, conv_in, oshape, ext, factor>>

\* lines 164-168; the knob is resolved when the code reads it.
ChannelThreading ==
  /\ pc = "tiled"
  /\ \E v \in KnobValues :
       /\ cfg' = [cfg EXCEPT !.oc_nthread = v]
       /\ s' = ThreadChannel(s, cfg')
  /\ pc' = "channel_threaded"
  /\ UNCHANGED <<g, padded, int_dtype, cls, declared, conv_in, oshape, ext, factor>>

\* lines 170-174
HeightThreading ==
  /\ pc = "channel_threaded"
  /\ \E v \in KnobValues :
       /\ cfg' = [cfg EXCEPT !.h_nthread = v]
       /\ s' = ThreadHeight(s, cfg')
  /\ pc' = "threaded"
  /\ UNCHANGED <<g, padded, int_dtype, cls, declared, conv_in, oshape, ext, factor>>

\* lines 176-182
ReductionStaging ==
  /\ pc = "threaded"
  /\ s' = StageReduction(s, cls)
  /\ pc' = "reduction_staged"
  /\ UNCHANGED <<g, padded, int_dtype, cls, cfg, declared, conv_in, oshape, ext, factor>>

\* lines 184-190
InstructionMapping ==
  /\ pc = "reduction_staged"
  /\ s' = MapInstructions(s, cls)
  /\ pc' = "done"
  /\ UNCHANGED <<g, padded, int_dtype, cls, cfg, declared, conv_in, oshape, ext, factor>>

NextSched ==
  \/ Classifying \/ DefiningSpace \/ AssigningScopes \/ Tiling
  \/ ChannelThreading \/ HeightThreading \/ ReductionStaging \/ InstructionMapping

Spec == InitSched /\ [][NextSched]_vars

\* ---- _schedule_add: classification and staging ----
InitAdd ==
  /\ pc = "add_start"
  /\ \E N \in 1..MaxAddOps : GraphIs("add", N, <<>>)
  /\ int_dtype \in BOOLEAN
  /\ padded = FALSE /\ cls = EmptyLists
  /\ cfg = Unread /\ declared = {} /\ s = NoSchedule
  /\ conv_in = NoConvInput /\ oshape = NoShape
  /\ ext = NoShape /\ factor = [i |-> 0, j |-> 0]

\* lines 196-206
AddCreating ==
  /\ pc = "add_start"
  /\ s' = CreateAddSchedule(g)
  /\ pc' = IF int_dtype THEN "add_created" ELSE "add_done"
  /\ UNCHANGED <<g, padded, int_dtype, cls, cfg, declared, conv_in, oshape, ext, factor>>

\* lines 210-237
AddTraversing ==
  /\ pc = "add_created"
  /\ cls' = TraverseAdd(g, OutputOp, EmptyLists)
  /\ pc' = "add_classified"
  /\ UNCHANGED <<g, padded, int_dtype, cfg, declared, s, conv_in, oshape, ext, factor>>

\* lines 238-291
AddStaging ==
  /\ pc = "add_classified"
  /\ s' = StageAdd(s, cls)
  /\ pc' = "add_done"
  /\ UNCHANGED <<g, padded, int_dtype, cls, cfg, declared, conv_in, oshape, ext, factor>>

NextAdd == AddCreating \/ AddTraversing \/ AddStaging

SpecAdd == InitAdd /\ [][NextAdd]_vars

\* ---- _schedule_add: the tile factors ----
InitFactors ==
  /\ pc = "factors_start"
  /\ ext \in [h : 1..MaxExtent, w : 1..MaxExtent]
  /\ g = NoGraph /\ padded = FALSE /\ int_dtype = TRUE /\ cls = EmptyLists
  /\ cfg = Unread /\ declared = {} /\ s = NoSchedule
  /\ conv_in = NoConvInput /\ oshape = NoShape
  /\ factor = [i |-> 0, j |-> 0]

\* lines 240-263
ChoosingFactors ==
  /\ pc = "factors_start"
  /\ factor' = TileFactors(ext)
  /\ pc' = "factors_done"
  /\ UNCHANGED <<g, padded, int_dtype, cls, cfg, declared, s, conv_in, oshape, ext>>

SpecFactors == InitFactors /\ [][ChoosingFactors]_vars


(***************************************************************************)
(* Properties.                                                             *)
(***************************************************************************)

Count(seq, x) == Cardinality({i \in 1..Len(seq) : seq[i] = x})

\* ---- C1 ----
\* C1: for every shape, stride pair and padding pair, conv2d_packed yields
\* out_h = floor((in_h + 2*pad_h - k_h)/stride_h) + 1 and
\* out_w = floor((in_w + 2*pad_w - k_w)/stride_w) + 1, each axis on its own,
\* also when only one of pad_h, pad_w is non-zero.
C1_OutputExtents ==
  pc = "conv_done" =>
    /\ oshape.h = FloorDiv(conv_in.in_h + 2 * conv_in.pad_h - conv_in.k_h,
                           conv_in.stride_h) + 1
    /\ oshape.w = FloorDiv(conv_in.in_w + 2 * conv_in.pad_w - conv_in.k_w,
                           conv_in.stride_w) + 1

\* ---- C2 ----
Filed(c) == c.const_ops \o c.ewise_ops \o c.conv2d_res

\* C2: after _traverse(output.op) has returned, every reachable operation
\* other than the output appears exactly once in total across const_ops,
\* ewise_ops and conv2d_res, also when an operation has several consumers.
C2_EachOpFiledOnce ==
  (pc \in {"classified", "failed"} /\ cls.ok /\ g[OutputOp].ins # {}) =>
    \A op \in Reachable(g) \ {OutputOp} : Count(Filed(cls), op) = 1

\* ---- C3 ----
ConvOps(gr) == {n \in Reachable(gr) : gr[n].tag = "conv2d_dense"}
OtherOps(gr) ==
  {n \in Reachable(gr) : ~is_broadcast(gr[n].tag) /\ gr[n].tag # "conv2d_dense"}

\* C3: the schedule fails, before any schedule is created, when the graph
\* holds zero or two distinct convolution nodes or a node that is neither
\* broadcast nor the convolution; and it passes the classification when the
\* graph holds exactly one convolution node, however many consumers read it.
C3_ClassificationCheck ==
  pc \in {"classified", "failed"} =>
    /\ (Cardinality(ConvOps(g)) \in {0, 2} \/ OtherOps(g) # {})
         => (pc = "failed" /\ s = NoSchedule)
    /\ (Cardinality(ConvOps(g)) = 1 /\ OtherOps(g) = {}) => pc = "classified"


\* ---- C4 ----
Events(st, call) == SelectSeq(st.log, LAMBDA e : e.call = call)

\* The axes of the output stage that have been split, and those bound to a
\* virtual thread.
SplitAxes(st) ==
  {e.axis : e \in {st.log[i] : i \in {j \in 1..Len(st.log) :
      st.log[j].call = "split" /\ st.log[j].stage = Output}}}
BoundAxes(st) ==
  {e.axis : e \in {st.log[i] : i \in {j \in 1..Len(st.log) :
      st.log[j].call = "bind" /\ st.log[j].stage = Output}}}
IsLeaf(st, stage, axis) == \E i \in 1..Len(st.leaf[stage]) : st.leaf[stage][i] = axis

\* C4: the outer-channel axis is split and bound as a virtual thread exactly
\* when oc_nthread is enabled, the outer-height axis exactly when h_nthread
\* is enabled, neither depends on the other knob, and enabling both binds
\* exactly two distinct axes, one derived from each.
C4_KnobsIndependent ==
  /\ pc \in {"channel_threaded", "threaded", "reduction_staged", "done"} =>
       /\ (cfg.oc_nthread > 1) <=> (x_co0 \in SplitAxes(s))
       /\ (cfg.oc_nthread > 1) <=> (Inner(x_co0) \in BoundAxes(s))
       /\ (cfg.oc_nthread = 1) <=> IsLeaf(s, Output, x_co0)
  /\ pc \in {"threaded", "reduction_staged", "done"} =>
       /\ (cfg.h_nthread > 1) <=> (x_i0 \in SplitAxes(s))
       /\ (cfg.h_nthread > 1) <=> (Inner(x_i0) \in BoundAxes(s))
       /\ (cfg.h_nthread = 1) <=> IsLeaf(s, Output, x_i0)
       /\ BoundAxes(s) = (IF cfg.oc_nthread > 1 THEN {Inner(x_co0)} ELSE {})
                           \cup (IF cfg.h_nthread > 1 THEN {Inner(x_i0)} ELSE {})
       /\ Len(Events(s, "bind")) = Cardinality(BoundAxes(s))

C4_Witness ==
  /\ pc = "done" /\ cfg.oc_nthread = 2 /\ cfg.h_nthread = 2
  /\ BoundAxes(s) = {Inner(x_co0), Inner(x_i0)}

\* ---- C7 ----
Before(seq, a, b) ==
  \E i, j \in 1..Len(seq) : i < j /\ seq[i] = a /\ seq[j] = b

InOrder(seq, axes) ==
  \A i, j \in 1..Len(axes) : i < j => Before(seq, axes[i], axes[j])

\* The outer-channel and the outer-height axis after threading: the outer
\* part when the knob has split the axis.
OuterChannel(cf) == IF cf.oc_nthread > 1 THEN Outer(x_co0) ELSE x_co0
OuterHeight(cf) == IF cf.h_nthread > 1 THEN Outer(x_i0) ELSE x_i0
ThreadAxes(cf) ==
  (IF cf.oc_nthread > 1 THEN {Inner(x_co0)} ELSE {})
    \cup (IF cf.h_nthread > 1 THEN {Inner(x_i0)} ELSE {})

\* C7: in the returned schedule, for all four knob combinations, the output
\* stage visits outer_batch, outer_height, outer_channel, outer_width,
\* inner_channel, inner_height, inner_width, inner_batch_block,
\* inner_channel_block in this relative order, and every virtual-thread axis
\* is ahead of outer_batch.
C7_LoopOrder ==
  pc = "done" =>
    /\ InOrder(s.leaf[Output],
               <<x_bo, OuterHeight(cfg), OuterChannel(cfg), x_j0, x_co1, x_i1, x_j1,
                 x_bi, x_ci>>)
    /\ \A v \in ThreadAxes(cfg) : Before(s.leaf[Output], v, x_bo)

\* C7 as amended: the axes other than outer_batch keep the relative order
\* and every virtual-thread axis is ahead of outer_batch, which takes the
\* place the first thread axis had: it is first only when no knob is
\* enabled, and otherwise directly follows the outer part of the axis that
\* was split first, still ahead of outer_width.
C7_LoopOrderAmended ==
  pc = "done" =>
    /\ InOrder(s.leaf[Output],
               <<OuterHeight(cfg), OuterChannel(cfg), x_j0, x_co1, x_i1, x_j1,
                 x_bi, x_ci>>)
    /\ \A v \in ThreadAxes(cfg) : Before(s.leaf[Output], v, x_bo)
    /\ Before(s.leaf[Output], x_bo, x_j0)
    /\ s.leaf[Output] =
         IF cfg.oc_nthread > 1 /\ cfg.h_nthread > 1
         THEN <<Inner(x_co0), Outer(x_i0), Inner(x_i0), Outer(x_co0), x_bo, x_j0,
                x_co1, x_i1, x_j1, x_bi, x_ci>>
         ELSE IF cfg.oc_nthread > 1
         THEN <<Inner(x_co0), x_i0, Outer(x_co0), x_bo, x_j0, x_co1, x_i1, x_j1,
                x_bi, x_ci>>
         ELSE IF cfg.h_nthread > 1
         THEN <<Inner(x_i0), Outer(x_i0), x_bo, x_co0, x_j0, x_co1, x_i1, x_j1,
                x_bi, x_ci>>
         ELSE <<x_bo, x_i0, x_co0, x_j0, x_co1, x_i1, x_j1, x_bi, x_ci>>

C7_Witness ==
  /\ pc = "done" /\ cfg.oc_nthread = 2 /\ cfg.h_nthread = 2
  /\ Before(s.leaf[Output], Outer(x_co0), x_bo)


\* ---- C6 ----
IsAnnotation(e) == e.call \in {"pragma", "tensorize"}
IsPlanning(e) ==
  e.call \in {"set_scope", "cache_read", "split", "reorder", "compute_at", "bind"}

\* C6: instruction mapping is the terminal phase: once an instruction
\* annotation (ALU pragma, DMA-copy pragma, GEMM tensorize) has been applied,
\* no scope, split, reorder, attach or thread-bind step follows, so that no
\* annotation precedes the end of tiling, threading and reduction staging.
C6_AnnotationsLast ==
  \A i, j \in 1..Len(s.log) :
    (i < j /\ IsAnnotation(s.log[i])) => ~IsPlanning(s.log[j])

\* The phase a primitive call belongs to: 1 scope assignment, 2 tiling and
\* attachment, 3 threading, 4 reduction staging, 5 the final annotations.
Phase(st, c, e) ==
  IF e.call \in {"set_scope", "cache_read", "compute_inline"} THEN 1
  ELSE IF e.call = "pragma" /\ e.arg = alu THEN 1
  ELSE IF e.call = "split" /\ e.stage = Output /\ e.arg \in SplitNames THEN 2
  ELSE IF e.call = "reorder" /\ e.stage = Output /\ Len(e.order) = 9 THEN 2
  ELSE IF e.call = "compute_at" /\ e.peer = Output THEN 2
  ELSE IF e.call = "pragma" /\ e.stage \in {st.cache_read_ewise[i] :
                                              i \in 1..Len(st.cache_read_ewise)} THEN 2
  ELSE IF e.call = "split" /\ e.stage = Output /\ e.arg \in KnobNames THEN 3
  ELSE IF e.call = "reorder" /\ e.stage = Output THEN 3
  ELSE IF e.call = "bind" THEN 3
  ELSE IF e.call \in {"split", "reorder"} /\ e.stage = conv2d_stage(c) THEN 4
  ELSE IF e.call = "compute_at" /\ e.peer = conv2d_stage(c) THEN 4
  ELSE 5

PhaseReached ==
  CASE pc \in {"start", "classified", "failed", "declared"} -> 0
    [] pc = "scoped" -> 1
    [] pc = "tiled" -> 2
    [] pc \in {"channel_threaded", "threaded"} -> 3
    [] pc = "reduction_staged" -> 4
    [] OTHER -> 5

\* C6 as amended: the calls come in the order scope assignment, tiling and
\* attachment, threading, reduction staging, final annotations; the GEMM
\* tensorize and the DMA-copy pragmas of the cached activation, the cached
\* weight and the output come last, after every planning step; but the ALU
\* pragma of an elementwise stage is applied during scope assignment and the
\* DMA-copy pragma of a cached elementwise input during attachment.
C6_PhaseOrder ==
  /\ \A i \in 1..(Len(s.log) - 1) :
       Phase(s, cls, s.log[i]) <= Phase(s, cls, s.log[i + 1])
  /\ \A i \in 1..Len(s.log) :
       /\ Phase(s, cls, s.log[i]) <= PhaseReached
       /\ Phase(s, cls, s.log[i]) = 5 <=>
            \/ s.log[i].call = "tensorize"
            \/ s.log[i].call = "pragma" /\ s.log[i].arg = dma_copy
                 /\ s.log[i].stage \in {s.cdata, s.ckernel, Output}
       /\ Phase(s, cls, s.log[i]) = 5 =>
            \A j \in 1..Len(s.log) : i < j => ~IsPlanning(s.log[j])
  /\ pc = "done" =>
       /\ Len(SelectSeq(s.log, LAMBDA e : Phase(s, cls, e) = 5)) = 4
       /\ Len(SelectSeq(s.log, LAMBDA e : e.call = "pragma" /\ e.arg = alu))
            = Len(cls.ewise_ops)
       /\ Len(SelectSeq(s.log, LAMBDA e : e.call = "pragma" /\ Phase(s, cls, e) = 2))
            = Len(cls.ewise_inputs)

C6_Witness ==
  /\ pc = "done" /\ cfg.oc_nthread = 2 /\ cfg.h_nthread = 2
  /\ cls.ewise_ops # <<>> /\ cls.ewise_inputs # <<>>
  /\ \E i, j \in 1..Len(s.log) :
       i < j /\ s.log[i].call = "pragma" /\ s.log[i].arg = alu
         /\ s.log[j].call = "split"

\* ---- C8 ----
\* The scopes given to a stage, by set_scope or by the cache_read that made it.
ScopeCalls(st, stage) ==
  SelectSeq(st.log, LAMBDA e : e.call \in {"set_scope", "cache_read"} /\ e.stage = stage)
ScopeIs(st, stage, scope) ==
  Len(ScopeCalls(st, stage)) = 1 /\ ScopeCalls(st, stage)[1].arg = scope
CacheOf(st, stage, tensor) ==
  \E i \in 1..Len(st.log) :
    st.log[i].call = "cache_read" /\ st.log[i].stage = stage /\ st.log[i].src = tensor
Inlined(st, stage) ==
  \E i \in 1..Len(st.log) : st.log[i].call = "compute_inline" /\ st.log[i].stage = stage

TileValues == 1..MaxTile

\* The splits of a schedule, in the order made.
Splits(st) == SelectSeq(st.log, LAMBDA e : e.call = "split")

\* The splits with every factor resolved by the configuration c. The other
\* calls of a schedule take nothing from the configuration.
Resolve(splits, c) ==
  [i \in 1..Len(splits) |->
     [stage |-> splits[i].stage, axis |-> splits[i].axis,
      factor |-> IF splits[i].arg \in DOMAIN c THEN c[splits[i].arg] ELSE 0]]

\* The configuration with the knobs as drawn, the batch split resolved to b
\* and the other splits resolved by c.
Resolved(c, b) ==
  [n \in SplitNames \cup KnobNames |->
     IF n = "tile_b" THEN b ELSE IF n \in SplitNames THEN c[n] ELSE cfg[n]]

OtherSplits == SplitNames \ {"tile_b"}

\* C10: tile_b is declared but never applied: configurations that agree on
\* tile_h, tile_w, tile_co, tile_ci and on the knobs and differ only in
\* tile_b give identical schedules (each equals the one with tile_b = 1).
C10_TileBUnused ==
  pc = "done" =>
    /\ "tile_b" \in declared
    /\ LET splits == Splits(s) IN
       \A c \in [OtherSplits -> TileValues] :
         LET plan == Resolve(splits, Resolved(c, 1))
         IN \A b \in TileValues \ {1} : Resolve(splits, Resolved(c, b)) = plan

C10_Witness ==
  /\ pc = "done" /\ "tile_b" \in declared
  /\ \E i \in 1..Len(s.log) : s.log[i].call = "split" /\ s.log[i].arg = "tile_co"
  /\ \E c \in [OtherSplits -> TileValues] :
       Resolve(Splits(s), Resolved(c, 1))
         # Resolve(Splits(s), Resolved([c EXCEPT !["tile_co"] = MaxTile + 1 - @], 1))


\* ---- C5 ----
Divides(d, n) == n % d = 0

LargestDivisorAtMost(n, ceiling) ==
  CHOOSE d \in 1..n :
    /\ Divides(d, n) /\ d <= ceiling
    /\ \A e \in 1..n : (Divides(e, n) /\ e <= ceiling) => e <= d

\* C5: for positive extents H and W the search ends and selects the largest
\* divisor of H that is at most 28 and the largest divisor of W that is at
\* most 14, each dividing its extent exactly (H = W = 56 gives 28 and 14).
C5_LargestDivisor ==
  pc = "factors_done" =>
    /\ factor.i = LargestDivisorAtMost(ext.h, 28)
    /\ factor.j = LargestDivisorAtMost(ext.w, 14)
    /\ factor.i >= 1 /\ Divides(factor.i, ext.h)
    /\ factor.j >= 1 /\ Divides(factor.j, ext.w)

C5_Witness ==
  /\ pc = "factors_done" /\ ext = [h |-> 56, w |-> 56]
  /\ factor = [i |-> 28, j |-> 14]

\* ---- C9 ----
Walked(c) == {c.walk[i] : i \in 1..Len(c.walk)}
Consumers(c) == {c.ewise_inputs[i][1] : i \in 1..Len(c.ewise_inputs)}
Pairs(c) == {c.ewise_inputs[i] : i \in 1..Len(c.ewise_inputs)}
OpInputs(gr, n) == gr[n].ins \ {Placeholder}
IsCast(gr, n) == is_cast_op(gr[n])

\* The operations reachable from the output on a path that passes through
\* no operation of the set closed, the output aside.
RECURSIVE ReachPast(_, _, _)
ReachPast(gr, closed, R) ==
  LET more == UNION {OpInputs(gr, n) : n \in {m \in R : m = OutputOp \/ m \notin closed}}
  IN IF more \subseteq R THEN R ELSE ReachPast(gr, closed, R \cup more)

Casts(gr) == {n \in 1..Len(gr) : IsCast(gr, n)}

\* The casts the output reads directly, when the output is a broadcast op.
OutputCasts(gr) ==
  IF is_broadcast(gr[OutputOp].tag) THEN Casts(gr) \cap OpInputs(gr, OutputOp) ELSE {}

\* The calls, other than the generic inlining, made on the stage of an op.
StagingCalls(st, n) ==
  SelectSeq(st.log, LAMBDA e :
    e.call # "compute_inline" /\ (e.stage = OpStage(n) \/ e.peer = OpStage(n)))

\* C9: with an integral output, no cast is in ewise_ops, no cast is the
\* consumer of a (consumer, leaf) pair, a cast feeding the output directly
\* takes no part in the scheduling, and no operation reachable from the
\* output only through a cast is traversed, classified or staged.
C9_CastTransparent ==
  (pc = "add_done" /\ int_dtype) =>
    /\ \A i \in 1..Len(cls.ewise_ops) : ~IsCast(g, cls.ewise_ops[i])
    /\ Consumers(cls) \cap Casts(g) = {}
    /\ \A n \in Casts(g) \cap OpInputs(g, OutputOp) :
         n \notin Walked(cls) /\ StagingCalls(s, n) = <<>>
    /\ Walked(cls) \subseteq ReachPast(g, Casts(g), {OutputOp})

\* C9 as amended: no cast is in ewise_ops or staged as an elementwise op; a
\* cast read by an interior broadcast op is a leaf, recorded as a pair and
\* not entered; but a cast the output reads directly is entered, so a cast
\* is walked or the consumer of a pair only if it is the output or feeds it
\* directly, and every operation walked is reached through no cast other
\* than one feeding the output directly.
C9_CastBoundary ==
  (pc = "add_done" /\ int_dtype) =>
    /\ \A i \in 1..Len(cls.ewise_ops) : ~IsCast(g, cls.ewise_ops[i])
    /\ \A n \in Casts(g) \ {OutputOp} :
         \A i \in 1..Len(s.log) :
           s.log[i].stage = OpStage(n) => s.log[i].call = "compute_inline"
    /\ (Walked(cls) \cup Consumers(cls)) \cap Casts(g)
         \subseteq {OutputOp} \cup OutputCasts(g)
    /\ OutputCasts(g) \subseteq Walked(cls)
    /\ Walked(cls) \subseteq ReachPast(g, Casts(g) \ OutputCasts(g), {OutputOp})
    /\ \A op \in Walked(cls) \ {OutputOp} :
         is_broadcast(g[op].tag) =>
           \A t \in Casts(g) \cap OpInputs(g, op) : <<op, t>> \in Pairs(cls)
    /\ Len(s.cache_read_ewise) = Len(cls.ewise_inputs)

C9_Witness ==
  /\ pc = "add_done" /\ int_dtype
  /\ \E n \in OutputCasts(g) : n \in Consumers(cls)
  /\ \E p \in Pairs(cls) : p[1] # OutputOp /\ ~IsPlaceholder(p[2]) /\ IsCast(g, p[2])

====
